---- MODULE Spec2Model ----
(***************************************************************************)
(* Model of markdown2html.py: the inline rewriter, the heading classifier, *)
(* the list tracker, the paragraph assembler and the driver that threads   *)
(* them over the lines of the Markdown file.                               *)
(*                                                                         *)
(* A Python str is a sequence of one-character strings, so that prefix     *)
(* tests, strip, count, replace and the regular-expression substitutions   *)
(* are computed character by character as the interpreter computes them.   *)
(***************************************************************************)
EXTENDS Integers, Sequences, FiniteSets, TLC

VARIABLES
    pc,               \* position of the script, or of the caller of one function
    argc,             \* len(sys.argv)
    markdown,         \* the lines of the Markdown file on disk
    md_open,          \* outcome of open(markdown_file, 'r')
    html_open,        \* outcome of open(html_file, 'w')
    lines, idx,       \* the lines read, and how many the loop has processed
    in_list, list_type,
    processed_lines,  \* the classified lines, then the result of convert_line
    html_file,        \* the text written to the output file
    stderr, exit_code,
    arg, ret          \* argument and result of a function called on its own

vars == <<pc, argc, markdown, md_open, html_open, lines, idx, in_list,
          list_type, processed_lines, html_file, stderr, exit_code, arg, ret>>

(***************************************************************************)
(* Bounds of the model.                                                    *)
(***************************************************************************)
\* longest input file of the driver, in lines
MaxLines == 3
\* longest line handed to heading
MaxHeadingLen == 5
\* longest line handed to remove_character
MaxInlineLen == 5
MaxRewriteLen == 2
\* longest sequence of classified lines handed to convert_line
MaxClassified == 3

(***************************************************************************)
(* str helpers                                                             *)
(***************************************************************************)
NL == "\n"

\* the characters str.strip() removes, among those the model uses
Whitespace == {" ", NL}

startswith(s, p) ==
    /\ Len(p) <= Len(s)
    /\ \A k \in 1..Len(p) : s[k] = p[k]

startswith_any(s, ps) == \E p \in ps : startswith(s, p)

\* s[n:], n counted from 0 as in Python
slice_from(s, n) == IF n >= Len(s) THEN <<>> ELSE SubSeq(s, n + 1, Len(s))

\* str.strip(chars): drop the leading and the trailing run of chars
strip_chars(s, chars) ==
    LET keep == {k \in 1..Len(s) : s[k] \notin chars}
        Min(S) == CHOOSE x \in S : \A y \in S : x <= y
        Max(S) == CHOOSE x \in S : \A y \in S : x >= y
    IN  IF keep = {} THEN <<>> ELSE SubSeq(s, Min(keep), Max(keep))

strip(s) == strip_chars(s, Whitespace)

\* str.count(c) for a one-character c
count(s, c) == Cardinality({k \in 1..Len(s) : s[k] = c})

\* str.replace(c, '') for a one-character c
replace_with_empty(s, c) == SelectSeq(s, LAMBDA x : x # c)

Digit(d) == <<"0", "1", "2", "3", "4", "5", "6", "7", "8", "9">>[d + 1]

RECURSIVE str_of_int(_)
\* str(n) for n >= 0, as an f-string renders {n}
str_of_int(n) ==
    IF n < 10 THEN <<Digit(n)>> ELSE str_of_int(n \div 10) \o <<Digit(n % 10)>>

(***************************************************************************)
(* re.sub(open (.*?) close, repl, line) for two-character delimiters:      *)
(* scanning from the left, the first position where open matches and close *)
(* occurs later starts a match, which ends at the nearest such close; the  *)
(* scan resumes after the match.                                           *)
(***************************************************************************)
At(s, k, d) == k >= 1 /\ k + 1 <= Len(s) /\ s[k] = d[1] /\ s[k + 1] = d[2]

Closes(s, i, c) == {k \in (i + 2)..(Len(s) - 1) : At(s, k, c)}

RECURSIVE Spans(_, _, _, _)
\* the matches, as [a |-> first position of open, b |-> first position of close]
Spans(s, o, c, i) ==
    IF i + 3 > Len(s) THEN <<>>
    ELSE IF At(s, i, o) /\ Closes(s, i, c) # {}
         THEN LET k == CHOOSE x \in Closes(s, i, c) :
                           \A y \in Closes(s, i, c) : x <= y
              IN  <<[a |-> i, b |-> k]>> \o Spans(s, o, c, k + 2)
         ELSE Spans(s, o, c, i + 1)

(***************************************************************************)
(* hashlib.md5(content.encode()).hexdigest() is library code: it is        *)
(* modelled by a digest of the same shape, 32 lowercase hexadecimal digits *)
(* computed from every character of the content and its position.          *)
(***************************************************************************)
CharTable == <<"a", "b", "c", "C", "o", "x", "y", "T", " ", "#", "-", "*",
               "_", "(", ")", "[", "]", "<", ">", "/", "0", "1", "2", "3",
               "4", "5", "6", "7", "8", "9", "d", "e", "f", "h", "l", "i",
               "u", "p", "r", "m", NL>>

Ord(ch) == CHOOSE k \in 1..Len(CharTable) : CharTable[k] = ch

HexDigit(d) == <<"0", "1", "2", "3", "4", "5", "6", "7",
                 "8", "9", "a", "b", "c", "d", "e", "f">>[d + 1]

RECURSIVE Mix(_, _)
Mix(h, s) ==
    IF s = <<>> THEN h ELSE Mix((h * 251 + Ord(Head(s))) % 65521, Tail(s))

RECURSIVE HexDigits(_, _)
HexDigits(x, k) ==
    IF k = 0 THEN <<>>
    ELSE <<HexDigit((x \div 16) % 16)>> \o HexDigits((x * 193 + 11) % 65521, k - 1)

md5_hash(content) == HexDigits(Mix(7, content), 32)

\* the lambda with only the lower-case letter removed
strip_c_lower_only(group) == replace_with_empty(group, "c")

\* lambda m: m.group(1).replace('c', '').replace('C', '')
strip_c(group) == replace_with_empty(replace_with_empty(group, "c"), "C")

bold(group) == <<"<", "b", ">">> \o group \o <<"<", "/", "b", ">">>

em(group) == <<"<", "e", "m", ">">> \o group \o <<"<", "/", "e", "m", ">">>

\* the replacement of one match, by the substitution it belongs to
Repl(kind, group) ==
    CASE kind = "md5" -> md5_hash(group)
      [] kind = "strip_c" -> strip_c(group)
      [] kind = "bold" -> bold(group)
      [] kind = "em" -> em(group)

RECURSIVE Rebuild(_, _, _, _, _)
\* the text between the matches kept, each match replaced by Repl of its group 1
Rebuild(s, sp, n, pos, kind) ==
    IF n > Len(sp) THEN slice_from(s, pos - 1)
    ELSE SubSeq(s, pos, sp[n].a - 1)
         \o Repl(kind, SubSeq(s, sp[n].a + 2, sp[n].b - 1))
         \o Rebuild(s, sp, n + 1, sp[n].b + 2, kind)

re_sub(o, c, kind, s) == Rebuild(s, Spans(s, o, c, 1), 1, 1, kind)

(***************************************************************************)
(* Inline Rewriter                                                         *)
(***************************************************************************)
remove_character(line) ==
    LET hashed == re_sub(<<"[", "[">>, <<"]", "]">>, "md5", line)
    IN  re_sub(<<"(", "(">>, <<")", ")">>, "strip_c", hashed)

process_inline_formatting(text) ==
    LET bolded == re_sub(<<"*", "*">>, <<"*", "*">>, "bold", text)
    IN  re_sub(<<"_", "_">>, <<"_", "_">>, "em", bolded)

(***************************************************************************)
(* Heading Classifier                                                      *)
(***************************************************************************)
heading(line) ==
    IF startswith(line, <<"#">>)
    THEN LET level == count(line, "#")
             line_content == strip(strip_chars(line, {"#"}))
         IN  <<"<", "h">> \o str_of_int(level) \o <<">">> \o line_content
             \o <<"<", "/", "h">> \o str_of_int(level) \o <<">">>
    ELSE line

(***************************************************************************)
(* List Tracker                                                            *)
(***************************************************************************)
None == "None"

DashMarker == <<"-", " ">>
StarMarker == <<"*", " ">>

li(line) == <<"<", "l", "i", ">">> \o strip(slice_from(line, 2))
            \o <<"<", "/", "l", "i", ">">>

open_tag(tag) == <<"<">> \o tag \o <<">">>
close_tag(tag) == <<"<", "/">> \o tag \o <<">">>

\* list with the closing tag forgotten when a line that is no item ends the list
list_without_closing(line, inl, ltype) ==
    IF startswith_any(line, {DashMarker, StarMarker})
    THEN IF ~inl
         THEN LET tag == IF startswith(line, DashMarker)
                         THEN <<"u", "l">> ELSE <<"o", "l">>
              IN  [out |-> open_tag(tag) \o <<NL>> \o li(line),
                   in_list |-> TRUE, list_type |-> tag]
         ELSE [out |-> li(line), in_list |-> TRUE, list_type |-> ltype]
    ELSE IF inl
         THEN [out |-> line, in_list |-> FALSE, list_type |-> None]
         ELSE [out |-> line, in_list |-> inl, list_type |-> ltype]

\* list with the tags of the two markers exchanged
list_tags_exchanged(line, inl, ltype) ==
    IF startswith_any(line, {DashMarker, StarMarker})
    THEN IF ~inl
         THEN LET tag == IF startswith(line, StarMarker)
                         THEN <<"u", "l">> ELSE <<"o", "l">>
              IN  [out |-> open_tag(tag) \o <<NL>> \o li(line),
                   in_list |-> TRUE, list_type |-> tag]
         ELSE [out |-> li(line), in_list |-> TRUE, list_type |-> ltype]
    ELSE IF inl
         THEN [out |-> close_tag(ltype) \o line,
               in_list |-> FALSE, list_type |-> None]
         ELSE [out |-> line, in_list |-> inl, list_type |-> ltype]

\* list with the type of an open list following the marker of each item
list_type_follows_marker(line, inl, ltype) ==
    IF startswith_any(line, {DashMarker, StarMarker})
    THEN LET tag == IF startswith(line, DashMarker)
                    THEN <<"u", "l">> ELSE <<"o", "l">>
         IN  IF ~inl
             THEN [out |-> open_tag(tag) \o <<NL>> \o li(line),
                   in_list |-> TRUE, list_type |-> tag]
             ELSE [out |-> li(line), in_list |-> TRUE, list_type |-> tag]
    ELSE IF inl
         THEN [out |-> close_tag(ltype) \o line,
               in_list |-> FALSE, list_type |-> None]
         ELSE [out |-> line, in_list |-> inl, list_type |-> ltype]

\* list with the line that closes a list stripped of its surrounding whitespace
list_close_strips_line(line, inl, ltype) ==
    IF startswith_any(line, {DashMarker, StarMarker})
    THEN IF ~inl
         THEN LET tag == IF startswith(line, DashMarker)
                         THEN <<"u", "l">> ELSE <<"o", "l">>
              IN  [out |-> open_tag(tag) \o <<NL>> \o li(line),
                   in_list |-> TRUE, list_type |-> tag]
         ELSE [out |-> li(line), in_list |-> TRUE, list_type |-> ltype]
    ELSE IF inl
         THEN [out |-> close_tag(ltype) \o strip(line),
               in_list |-> FALSE, list_type |-> None]
         ELSE [out |-> line, in_list |-> inl, list_type |-> ltype]

\* list with the type of the closed list kept in the returned state
list_close_keeps_type(line, inl, ltype) ==
    IF startswith_any(line, {DashMarker, StarMarker})
    THEN IF ~inl
         THEN LET tag == IF startswith(line, DashMarker)
                         THEN <<"u", "l">> ELSE <<"o", "l">>
              IN  [out |-> open_tag(tag) \o <<NL>> \o li(line),
                   in_list |-> TRUE, list_type |-> tag]
         ELSE [out |-> li(line), in_list |-> TRUE, list_type |-> ltype]
    ELSE IF inl
         THEN [out |-> close_tag(ltype) \o line,
               in_list |-> FALSE, list_type |-> ltype]
         ELSE [out |-> line, in_list |-> inl, list_type |-> ltype]

\* list(line, in_list, list_type): the returned triple
list(line, inl, ltype) ==
    IF startswith_any(line, {DashMarker, StarMarker})
    THEN IF ~inl
         THEN LET tag == IF startswith(line, DashMarker)
                         THEN <<"u", "l">> ELSE <<"o", "l">>
              IN  [out |-> open_tag(tag) \o <<NL>> \o li(line),
                   in_list |-> TRUE, list_type |-> tag]
         ELSE [out |-> li(line), in_list |-> TRUE, list_type |-> ltype]
    ELSE IF inl
         THEN [out |-> close_tag(ltype) \o line,
               in_list |-> FALSE, list_type |-> None]
         ELSE [out |-> line, in_list |-> inl, list_type |-> ltype]

(***************************************************************************)
(* Paragraph Assembler                                                     *)
(***************************************************************************)
P_OPEN == <<"<", "p", ">">>
P_CLOSE == <<"<", "/", "p", ">">>
BR == <<"<", "b", "r", " ", "/", ">">>

ClosingMarkers == {<<"<", "h">>, <<"<", "/", "u", "l", ">">>,
                   <<"<", "/", "o", "l", ">">>}
OpeningMarkers == {<<"<", "u", "l">>, <<"<", "l", "i">>, <<"<", "o", "l">>}

\* convert_step with the </p> of a blank line forgotten
convert_step_blank_keeps_open(st, line) ==
    IF startswith_any(line, ClosingMarkers)
    THEN [in_paragraph |-> FALSE,
          html_lines |-> (IF st.in_paragraph
                          THEN Append(st.html_lines, P_CLOSE)
                          ELSE st.html_lines) \o <<line>>]
    ELSE IF startswith_any(line, OpeningMarkers)
    THEN [in_paragraph |-> FALSE, html_lines |-> Append(st.html_lines, line)]
    ELSE IF strip(line) = <<>>
    THEN [in_paragraph |-> FALSE, html_lines |-> st.html_lines]
    ELSE [in_paragraph |-> TRUE,
          html_lines |-> (IF ~st.in_paragraph
                          THEN Append(st.html_lines, P_OPEN)
                          ELSE Append(st.html_lines, BR)) \o <<line>>]

\* convert_step with a heading or list closing line dropped like a blank line
convert_step_drops_closing_line(st, line) ==
    IF startswith_any(line, OpeningMarkers)
    THEN [in_paragraph |-> FALSE, html_lines |-> Append(st.html_lines, line)]
    ELSE IF strip(line) = <<>> \/ startswith_any(line, ClosingMarkers)
    THEN [in_paragraph |-> FALSE,
          html_lines |-> IF st.in_paragraph
                         THEN Append(st.html_lines, P_CLOSE)
                         ELSE st.html_lines]
    ELSE [in_paragraph |-> TRUE,
          html_lines |-> (IF ~st.in_paragraph
                          THEN Append(st.html_lines, P_OPEN)
                          ELSE Append(st.html_lines, BR)) \o <<line>>]

\* convert_step with </p> emitted when a list opening line ends a paragraph
convert_step_list_closes_paragraph(st, line) ==
    IF startswith_any(line, ClosingMarkers) \/ startswith_any(line, OpeningMarkers)
    THEN [in_paragraph |-> FALSE,
          html_lines |-> (IF st.in_paragraph
                          THEN Append(st.html_lines, P_CLOSE)
                          ELSE st.html_lines) \o <<line>>]
    ELSE IF strip(line) = <<>>
    THEN [in_paragraph |-> FALSE,
          html_lines |-> IF st.in_paragraph
                         THEN Append(st.html_lines, P_CLOSE)
                         ELSE st.html_lines]
    ELSE [in_paragraph |-> TRUE,
          html_lines |-> (IF ~st.in_paragraph
                          THEN Append(st.html_lines, P_OPEN)
                          ELSE Append(st.html_lines, BR)) \o <<line>>]

\* convert_step with the flag left alone by a list opening line
convert_step_list_keeps_paragraph(st, line) ==
    IF startswith_any(line, ClosingMarkers)
    THEN [in_paragraph |-> FALSE,
          html_lines |-> (IF st.in_paragraph
                          THEN Append(st.html_lines, P_CLOSE)
                          ELSE st.html_lines) \o <<line>>]
    ELSE IF startswith_any(line, OpeningMarkers)
    THEN [in_paragraph |-> st.in_paragraph,
          html_lines |-> Append(st.html_lines, line)]
    ELSE IF strip(line) = <<>>
    THEN [in_paragraph |-> FALSE,
          html_lines |-> IF st.in_paragraph
                         THEN Append(st.html_lines, P_CLOSE)
                         ELSE st.html_lines]
    ELSE [in_paragraph |-> TRUE,
          html_lines |-> (IF ~st.in_paragraph
                          THEN Append(st.html_lines, P_OPEN)
                          ELSE Append(st.html_lines, BR)) \o <<line>>]

\* convert_step with </p> emitted by every blank line, a paragraph open or not
convert_step_blank_always_closes(st, line) ==
    IF startswith_any(line, ClosingMarkers)
    THEN [in_paragraph |-> FALSE,
          html_lines |-> (IF st.in_paragraph
                          THEN Append(st.html_lines, P_CLOSE)
                          ELSE st.html_lines) \o <<line>>]
    ELSE IF startswith_any(line, OpeningMarkers)
    THEN [in_paragraph |-> FALSE, html_lines |-> Append(st.html_lines, line)]
    ELSE IF strip(line) = <<>>
    THEN [in_paragraph |-> FALSE, html_lines |-> Append(st.html_lines, P_CLOSE)]
    ELSE [in_paragraph |-> TRUE,
          html_lines |-> (IF ~st.in_paragraph
                          THEN Append(st.html_lines, P_OPEN)
                          ELSE Append(st.html_lines, BR)) \o <<line>>]

\* one iteration of the loop of convert_line
convert_step(st, line) ==
    IF startswith_any(line, ClosingMarkers)
    THEN [in_paragraph |-> FALSE,
          html_lines |-> (IF st.in_paragraph
                          THEN Append(st.html_lines, P_CLOSE)
                          ELSE st.html_lines) \o <<line>>]
    ELSE IF startswith_any(line, OpeningMarkers)
    THEN [in_paragraph |-> FALSE, html_lines |-> Append(st.html_lines, line)]
    ELSE IF strip(line) = <<>>
    THEN [in_paragraph |-> FALSE,
          html_lines |-> IF st.in_paragraph
                         THEN Append(st.html_lines, P_CLOSE)
                         ELSE st.html_lines]
    ELSE [in_paragraph |-> TRUE,
          html_lines |-> (IF ~st.in_paragraph
                          THEN Append(st.html_lines, P_OPEN)
                          ELSE Append(st.html_lines, BR)) \o <<line>>]

RECURSIVE convert_loop(_, _, _)
convert_loop(st, ls, k) ==
    IF k > Len(ls) THEN st ELSE convert_loop(convert_step(st, ls[k]), ls, k + 1)

convert_line(ls) ==
    LET st == convert_loop([in_paragraph |-> FALSE, html_lines |-> <<>>], ls, 1)
    IN  IF st.in_paragraph THEN Append(st.html_lines, P_CLOSE) ELSE st.html_lines

(***************************************************************************)
(* Pipeline Driver: the __main__ block                                     *)
(***************************************************************************)
Strings(A, n) == UNION {[1..k -> A] : k \in 0..n}

\* the lines a Markdown file of the model is made of
SampleLines ==
    { <<"#", " ", "T">>,
      <<>>,
      <<" ">>,
      <<"-", " ", "a">>,
      <<"*", " ", "b">>,
      <<"x">>,
      <<"_", "_", "y", "_", "_">>,
      <<"-", " ", "#", "c">>,
      <<"(", "(", "c", ")", ")">> }

USAGE == "Usage: ./markdown2html.py README.md README.html"
MISSING == "Missing <markdown_file>"
TRACEBACK == "Traceback (most recent call last)"

Idle == /\ arg = <<>>
        /\ ret = <<>>

Init ==
    /\ pc = "check_args"
    /\ argc = 0
    /\ markdown \in Strings(SampleLines, MaxLines)
    /\ md_open = None
    /\ html_open = None
    /\ lines = <<>>
    /\ idx = 0
    /\ in_list = FALSE
    /\ list_type = None
    /\ processed_lines = <<>>
    /\ html_file = None
    /\ stderr = <<>>
    /\ exit_code = None
    /\ Idle

\* lines 140-142: fewer than two arguments
UsageError ==
    /\ pc = "check_args"
    /\ \E n \in 1..2 : argc' = n
    /\ stderr' = Append(stderr, USAGE)
    /\ exit_code' = 1
    /\ pc' = "exit"
    /\ UNCHANGED <<markdown, md_open, html_open, lines, idx, in_list,
                   list_type, processed_lines, html_file, arg, ret>>

\* lines 140-145: both arguments given
CheckArgs ==
    /\ pc = "check_args"
    /\ argc' = 3
    /\ pc' = "open_markdown"
    /\ UNCHANGED <<markdown, md_open, html_open, lines, idx, in_list,
                   list_type, processed_lines, html_file, stderr, exit_code,
                   arg, ret>>

\* lines 148-152: the file opens and is read
OpenMarkdown ==
    /\ pc = "open_markdown"
    /\ md_open' = "ok"
    /\ lines' = markdown
    /\ processed_lines' = <<>>
    /\ in_list' = FALSE
    /\ list_type' = None
    /\ idx' = 0
    /\ pc' = "loop"
    /\ UNCHANGED <<argc, markdown, html_open, html_file, stderr, exit_code,
                   arg, ret>>

\* the handler with sys.exit(1) left out: the script ends normally
MarkdownMissing_exit_zero ==
    /\ pc = "open_markdown"
    /\ md_open' = "FileNotFoundError"
    /\ stderr' = Append(stderr, MISSING)
    /\ exit_code' = 0
    /\ pc' = "exit"
    /\ UNCHANGED <<argc, markdown, html_open, lines, idx, in_list, list_type,
                   processed_lines, html_file, arg, ret>>

\* lines 148, 164-166: open raises FileNotFoundError, which is caught
MarkdownMissing ==
    /\ pc = "open_markdown"
    /\ md_open' = "FileNotFoundError"
    /\ stderr' = Append(stderr, MISSING)
    /\ exit_code' = 1
    /\ pc' = "exit"
    /\ UNCHANGED <<argc, markdown, html_open, lines, idx, in_list, list_type,
                   processed_lines, html_file, arg, ret>>

\* line 148: open raises another OSError (PermissionError, IsADirectoryError),
\* which no handler catches: the interpreter prints the traceback and exits 1
MarkdownUnreadable ==
    /\ pc = "open_markdown"
    /\ \E e \in {"PermissionError", "IsADirectoryError"} : md_open' = e
    /\ stderr' = Append(stderr, TRACEBACK)
    /\ exit_code' = 1
    /\ pc' = "exit"
    /\ UNCHANGED <<argc, markdown, html_open, lines, idx, in_list, list_type,
                   processed_lines, html_file, arg, ret>>

\* the iteration with the list tracker called before the heading classifier
ProcessLine_list_before_heading ==
    /\ pc = "loop"
    /\ idx < Len(lines)
    /\ LET line == process_inline_formatting(remove_character(lines[idx + 1]))
           r == list(line, in_list, list_type)
       IN  /\ processed_lines' = Append(processed_lines, heading(r.out))
           /\ in_list' = r.in_list
           /\ list_type' = r.list_type
    /\ idx' = idx + 1
    /\ UNCHANGED <<pc, argc, markdown, md_open, html_open, lines, html_file,
                   stderr, exit_code, arg, ret>>

\* lines 153-157: one iteration of the loop over the lines
ProcessLine ==
    /\ pc = "loop"
    /\ idx < Len(lines)
    /\ LET line == process_inline_formatting(remove_character(lines[idx + 1]))
           r == list(heading(line), in_list, list_type)
       IN  /\ processed_lines' = Append(processed_lines, r.out)
           /\ in_list' = r.in_list
           /\ list_type' = r.list_type
    /\ idx' = idx + 1
    /\ UNCHANGED <<pc, argc, markdown, md_open, html_open, lines, html_file,
                   stderr, exit_code, arg, ret>>

\* line 158
Assemble ==
    /\ pc = "loop"
    /\ idx = Len(lines)
    /\ processed_lines' = convert_line(processed_lines)
    /\ pc' = "open_html"
    /\ UNCHANGED <<argc, markdown, md_open, html_open, lines, idx, in_list,
                   list_type, html_file, stderr, exit_code, arg, ret>>

\* line 159: the output file is created or truncated
OpenHtml ==
    /\ pc = "open_html"
    /\ html_open' = "ok"
    /\ html_file' = <<>>
    /\ pc' = "write"
    /\ UNCHANGED <<argc, markdown, md_open, lines, idx, in_list, list_type,
                   processed_lines, stderr, exit_code, arg, ret>>

\* lines 159, 164-166: the directory of the output path does not exist; open
\* raises FileNotFoundError inside the try block and the handler catches it
HtmlDirMissing ==
    /\ pc = "open_html"
    /\ html_open' = "FileNotFoundError"
    /\ stderr' = Append(stderr, MISSING)
    /\ exit_code' = 1
    /\ pc' = "exit"
    /\ UNCHANGED <<argc, markdown, md_open, lines, idx, in_list, list_type,
                   processed_lines, html_file, arg, ret>>

\* line 159: open raises another OSError, which no handler catches
HtmlUnwritable ==
    /\ pc = "open_html"
    /\ \E e \in {"PermissionError", "IsADirectoryError"} : html_open' = e
    /\ stderr' = Append(stderr, TRACEBACK)
    /\ exit_code' = 1
    /\ pc' = "exit"
    /\ UNCHANGED <<argc, markdown, md_open, lines, idx, in_list, list_type,
                   processed_lines, html_file, arg, ret>>

RECURSIVE written(_)
\* the text that html.write(line + '\n') for line in ls appends
written(ls) == IF ls = <<>> THEN <<>> ELSE Head(ls) \o <<NL>> \o written(Tail(ls))

\* lines 160-161
WriteLines ==
    /\ pc = "write"
    /\ html_file' = html_file \o written(processed_lines)
    /\ pc' = "flush"
    /\ UNCHANGED <<argc, markdown, md_open, html_open, lines, idx, in_list,
                   list_type, processed_lines, stderr, exit_code, arg, ret>>

\* the end of the script with lines 162-163 left out
Flush_without_closing ==
    /\ pc = "flush"
    /\ exit_code' = 0
    /\ pc' = "exit"
    /\ UNCHANGED <<argc, markdown, md_open, html_open, lines, idx, in_list,
                   list_type, processed_lines, html_file, stderr, arg, ret>>

\* lines 162-163, then the normal end of the script
Flush ==
    /\ pc = "flush"
    /\ html_file' = IF in_list
                    THEN html_file \o close_tag(list_type) \o <<NL>>
                    ELSE html_file
    /\ exit_code' = 0
    /\ pc' = "exit"
    /\ UNCHANGED <<argc, markdown, md_open, html_open, lines, idx, in_list,
                   list_type, processed_lines, stderr, arg, ret>>

Next ==
    \/ UsageError
    \/ CheckArgs
    \/ OpenMarkdown
    \/ MarkdownMissing
    \/ MarkdownUnreadable
    \/ ProcessLine
    \/ Assemble
    \/ OpenHtml
    \/ HtmlDirMissing
    \/ HtmlUnwritable
    \/ WriteLines
    \/ Flush

Spec == Init /\ [][Next]_vars

(***************************************************************************)
(* The functions called on their own, on every argument within the bounds  *)
(***************************************************************************)
DriverIdle ==
    /\ argc = 0
    /\ markdown = <<>>
    /\ md_open = None
    /\ html_open = None
    /\ lines = <<>>
    /\ idx = 0
    /\ in_list = FALSE
    /\ list_type = None
    /\ processed_lines = <<>>
    /\ html_file = None
    /\ stderr = <<>>
    /\ exit_code = None

driver_vars == <<argc, markdown, md_open, html_open, lines, idx, in_list,
                 list_type, processed_lines, html_file, stderr, exit_code>>

HeadingAlphabet == {"#", " ", "a", "b"}

InitHeading ==
    /\ pc = "call_heading"
    /\ arg \in Strings(HeadingAlphabet, MaxHeadingLen)
    /\ ret = <<>>
    /\ DriverIdle

CallHeading ==
    /\ pc = "call_heading"
    /\ ret' = heading(arg)
    /\ pc' = "returned"
    /\ UNCHANGED <<arg, driver_vars>>

SpecHeading == InitHeading /\ [][CallHeading]_vars

InlineAlphabet == {"(", ")", "c", "C", "o"}

InlineExamples ==
    { <<"(", "(", "C", "o", "o", "l", ")", ")">>,
      <<"(", "(", "C", "o", "d", "e", ")", ")">>,
      <<"a", "(", "(", "c", "a", "C", ")", ")", "c", "(", "(", "C", "c", ")", ")", "C">>,
      <<"c", "(", "(", "c", "a", ")", "c">> }

InitInline ==
    /\ pc = "call_remove_character"
    /\ arg \in Strings(InlineAlphabet, MaxInlineLen) \cup InlineExamples
    /\ ret = <<>>
    /\ DriverIdle

CallRemoveCharacter ==
    /\ pc = "call_remove_character"
    /\ ret' = remove_character(arg)
    /\ pc' = "returned"
    /\ UNCHANGED <<arg, driver_vars>>

SpecInline == InitInline /\ [][CallRemoveCharacter]_vars

\* the delimiters of the four directives, and no delimiter at all
RewriteDelims ==
    { [o |-> <<"[", "[">>, c |-> <<"]", "]">>],
      [o |-> <<"(", "(">>, c |-> <<")", ")">>],
      [o |-> <<"*", "*">>, c |-> <<"*", "*">>],
      [o |-> <<"_", "_">>, c |-> <<"_", "_">>],
      [o |-> <<>>, c |-> <<>>] }

Wrap(d, t) == d.o \o t \o d.c

\* lines holding one directive inside another
RewriteInputs ==
    { Wrap(outer, Wrap(inner, t)) :
        outer \in RewriteDelims, inner \in RewriteDelims,
        t \in Strings({"a", "c"}, MaxRewriteLen) }

InitRewrite ==
    /\ pc = "call_rewrite"
    /\ arg \in RewriteInputs
    /\ ret = <<>>
    /\ DriverIdle

\* line = remove_character(line); line = process_inline_formatting(line)
CallRewrite ==
    /\ pc = "call_rewrite"
    /\ ret' = process_inline_formatting(remove_character(arg))
    /\ pc' = "returned"
    /\ UNCHANGED <<arg, driver_vars>>

SpecRewrite == InitRewrite /\ [][CallRewrite]_vars

\* classified lines of every kind the list tracker hands to convert_line
ClassifiedSamples ==
    { <<"<", "h", "1", ">", "T", "<", "/", "h", "1", ">">>,
      <<>>,
      <<" ">>,
      <<"<", "u", "l", ">", NL, "<", "l", "i", ">", "a", "<", "/", "l", "i", ">">>,
      <<"<", "l", "i", ">", "b", "<", "/", "l", "i", ">">>,
      <<"<", "/", "u", "l", ">">>,
      <<"<", "/", "o", "l", ">", "x">>,
      <<"x">>,
      <<"y">> }

InitAssembler ==
    /\ pc = "call_convert_line"
    /\ arg \in Strings(ClassifiedSamples, MaxClassified)
    /\ ret = <<>>
    /\ DriverIdle

CallConvertLine ==
    /\ pc = "call_convert_line"
    /\ ret' = convert_line(arg)
    /\ pc' = "returned"
    /\ UNCHANGED <<arg, driver_vars>>

SpecAssembler == InitAssembler /\ [][CallConvertLine]_vars

(***************************************************************************)
(* Observations the properties are stated with                             *)
(***************************************************************************)
Finished == pc = "exit" /\ exit_code = 0

UL == <<"u", "l">>
OL == <<"o", "l">>

RECURSIVE SplitLines(_, _)
\* the lines of a text in which every line ends with a newline
SplitLines(text, cur) ==
    IF text = <<>> THEN (IF cur = <<>> THEN <<>> ELSE <<cur>>)
    ELSE IF Head(text) = NL THEN <<cur>> \o SplitLines(Tail(text), <<>>)
    ELSE SplitLines(Tail(text), Append(cur, Head(text)))

FileLines == IF html_file = None THEN <<>> ELSE SplitLines(html_file, <<>>)

RECURSIVE TagEvents(_)
\* the list tags of a text, in order: <<"open" | "close", type>>
TagEvents(text) ==
    IF text = <<>> THEN <<>>
    ELSE LET here == IF startswith(text, open_tag(UL)) THEN <<<<"open", UL>>>>
                     ELSE IF startswith(text, open_tag(OL)) THEN <<<<"open", OL>>>>
                     ELSE IF startswith(text, close_tag(UL)) THEN <<<<"close", UL>>>>
                     ELSE IF startswith(text, close_tag(OL)) THEN <<<<"close", OL>>>>
                     ELSE <<>>
         IN  here \o TagEvents(Tail(text))

\* the input line k as the list tracker receives it
Classified(k) == heading(process_inline_formatting(remove_character(markdown[k])))

IsItem(k) == startswith_any(Classified(k), {DashMarker, StarMarker})

MarkerTag(k) == IF startswith(Classified(k), DashMarker) THEN UL ELSE OL

\* the first line of the run of list items that line k belongs to
RunStart(k) ==
    CHOOSE i \in 1..k :
        /\ \A j \in i..k : IsItem(j)
        /\ i = 1 \/ ~IsItem(i - 1)

\* the runs of list items of the input, as <<first, last>>
ItemRuns ==
    {r \in (1..Len(markdown)) \X (1..Len(markdown)) :
        /\ r[1] <= r[2]
        /\ \A j \in r[1]..r[2] : IsItem(j)
        /\ r[1] = 1 \/ ~IsItem(r[1] - 1)
        /\ r[2] = Len(markdown) \/ ~IsItem(r[2] + 1)}

(***************************************************************************)
(* C1: in the complete output every list opening tag is closed exactly     *)
(* once, later, by the closing tag of its type; at most one list is open   *)
(* at any point; no closing tag appears while no list is open.             *)
(***************************************************************************)
WellNested(ev) ==
    /\ Len(ev) % 2 = 0
    /\ \A k \in 1..Len(ev) :
          IF k % 2 = 1
          THEN ev[k][1] = "open"
          ELSE ev[k][1] = "close" /\ ev[k][2] = ev[k - 1][2]

C1_ListsBalanced == Finished => WellNested(TagEvents(html_file))

\* two lists, the first closed by a line that is no item, the second by the
\* end of the input
C1_Witness ==
    /\ Finished
    /\ Len(TagEvents(html_file)) = 4
    /\ in_list

(***************************************************************************)
(* C2: every <p> line convert_line emits is followed by exactly one </p>   *)
(* before the next <p> or the end of the output, whatever line ends the    *)
(* paragraph.  As stated it fails: a list opening line ends a paragraph    *)
(* without </p>.                                                           *)
(***************************************************************************)
\* the output lines after the <p> at position i, up to the next <p> or the end
Segment(out, i) ==
    LET later == {j \in (i + 1)..Len(out) : out[j] = P_OPEN}
        stop == IF later = {} THEN Len(out) + 1
                ELSE CHOOSE j \in later : \A l \in later : j <= l
    IN  SubSeq(out, i + 1, stop - 1)

Closings(seg) == Cardinality({j \in 1..Len(seg) : seg[j] = P_CLOSE})

C2_EveryParagraphClosed ==
    pc = "returned" =>
        \A i \in 1..Len(ret) : ret[i] = P_OPEN => Closings(Segment(ret, i)) = 1

(***************************************************************************)
(* C2 as amended: every <p> line is followed, before the next <p> or the   *)
(* end of the output, by exactly one </p> when a heading, a list closing   *)
(* line, a blank line or the end of the input ends the paragraph, and by   *)
(* none when a list opening line (<ul, <ol, <li) ends it.                  *)
(***************************************************************************)
EndsParagraph(l) == l = P_CLOSE \/ startswith_any(l, OpeningMarkers)

C2_ParagraphClosedUnlessListOpens ==
    pc = "returned" =>
        \A i \in 1..Len(ret) : ret[i] = P_OPEN =>
            LET seg == Segment(ret, i)
                ends == {j \in 1..Len(seg) : EndsParagraph(seg[j])}
            IN  /\ ends # {}
                /\ LET e == CHOOSE j \in ends : \A l \in ends : j <= l
                   IN  IF seg[e] = P_CLOSE
                       THEN Closings(seg) = 1
                       ELSE Closings(seg) = 0

\* a paragraph ended by a list opening line and one ended by a blank line
C2_Witness ==
    /\ pc = "returned"
    /\ \E i, j \in 1..Len(ret) :
          /\ ret[i] = P_OPEN /\ Closings(Segment(ret, i)) = 0
          /\ ret[j] = P_OPEN /\ Closings(Segment(ret, j)) = 1

(***************************************************************************)
(* C3: for a line starting with '#', heading returns <hL>text</hL> where L *)
(* is the length of the leading run of '#' only and text is the line with  *)
(* its leading and trailing '#' and the surrounding whitespace removed; a  *)
(* line not starting with '#' is returned unchanged.  The code takes L     *)
(* from line.count('#'), every '#' of the line.                            *)
(***************************************************************************)
LeadingRun(s) ==
    Cardinality({k \in 1..Len(s) : \A j \in 1..k : s[j] = "#"})

HeadingElement(level, text) ==
    <<"<", "h">> \o str_of_int(level) \o <<">">> \o text
    \o <<"<", "/", "h">> \o str_of_int(level) \o <<">">>

C3_LevelIsLeadingRun ==
    pc = "returned" =>
        IF arg # <<>> /\ arg[1] = "#"
        THEN ret = HeadingElement(LeadingRun(arg), strip(strip_chars(arg, {"#"})))
        ELSE ret = arg

(***************************************************************************)
(* C4: every maximal run of k >= 1 consecutive input lines starting with   *)
(* "- " gives one <ul> line, immediately followed by the k <li> items in   *)
(* input order, followed by one </ul>, at the start of the output line of  *)
(* the next line that is no item or as the last output line.  As stated it *)
(* fails next to "* " lines, which share the list of the run.              *)
(***************************************************************************)
IsDash(k) == startswith(markdown[k], DashMarker)
IsStar(k) == startswith(markdown[k], StarMarker)

DashRuns ==
    {r \in (1..Len(markdown)) \X (1..Len(markdown)) :
        /\ r[1] <= r[2]
        /\ \A j \in r[1]..r[2] : IsDash(j)
        /\ r[1] = 1 \/ ~IsDash(r[1] - 1)
        /\ r[2] = Len(markdown) \/ ~IsDash(r[2] + 1)}

\* the lines of the file from position p on are the list of the run r
UlBlock(F, p, r) ==
    LET k == r[2] - r[1] + 1
    IN  /\ p + k + 1 <= Len(F)
        /\ F[p] = open_tag(UL)
        /\ \A m \in 1..k : F[p + m] = li(Classified(r[1] + m - 1))
        /\ IF r[2] = Len(markdown)
           THEN p + k + 1 = Len(F) /\ F[p + k + 1] = close_tag(UL)
           ELSE /\ ~IsItem(r[2] + 1)
                /\ F[p + k + 1] = close_tag(UL) \o Classified(r[2] + 1)

C4_DashRunIsOneUl ==
    Finished => \A r \in DashRuns : \E p \in 1..Len(FileLines) : UlBlock(FileLines, p, r)

(***************************************************************************)
(* C4 as amended: the same, for every maximal run of consecutive lines     *)
(* starting with "- " that has no line starting with "* " immediately      *)
(* before or after it (the lines taken as the list tracker receives them,  *)
(* after the inline rewriting).                                            *)
(***************************************************************************)
Isolated(r) ==
    /\ r[1] = 1 \/ ~IsItem(r[1] - 1)
    /\ r[2] = Len(markdown) \/ ~IsItem(r[2] + 1)

C4_IsolatedDashRunIsOneUl ==
    Finished =>
        \A r \in DashRuns :
            Isolated(r) => \E p \in 1..Len(FileLines) : UlBlock(FileLines, p, r)

\* a run of two "- " lines closed by a line that is no item
C4_Witness ==
    /\ Finished
    /\ \E r \in DashRuns : Isolated(r) /\ r[2] > r[1] /\ r[2] < Len(markdown)

(***************************************************************************)
(* C5: while a list is open, an item line whose marker differs from the    *)
(* marker that opened the list emits only <li>rest</li>; the list state is *)
(* unchanged: list_type keeps the type of the first item of the run, and   *)
(* the closing tag written for the run is of that type.                    *)
(***************************************************************************)
RunType(k) == MarkerTag(RunStart(k))

RunNumber(r) == Cardinality({q \in ItemRuns : q[1] <= r[1]})

C5_MixedMarkerKeepsList ==
    /\ (pc = "loop" /\ idx >= 2 /\ IsItem(idx) /\ IsItem(idx - 1)
            /\ MarkerTag(idx) # RunType(idx))
          => /\ processed_lines[idx] = li(Classified(idx))
             /\ in_list
             /\ list_type = RunType(idx)
    /\ Finished =>
          LET ev == TagEvents(html_file)
          IN  /\ Len(ev) = 2 * Cardinality(ItemRuns)
              /\ \A r \in ItemRuns :
                    /\ ev[2 * RunNumber(r) - 1] = <<"open", MarkerTag(r[1])>>
                    /\ ev[2 * RunNumber(r)] = <<"close", MarkerTag(r[1])>>

\* a finished run over a list opened by "- " that holds a "* " item
C5_Witness ==
    /\ Finished
    /\ \E r \in ItemRuns :
          /\ MarkerTag(r[1]) = UL
          /\ \E j \in r[1]..r[2] : MarkerTag(j) = OL

(***************************************************************************)
(* C6: a line without Markdown markers that is the only line of its        *)
(* paragraph appears in the output as the three consecutive lines <p>, L,  *)
(* </p>, whatever line precedes it: the start of the input, a blank line,  *)
(* a heading or a list item.  The claim is stated here for the lines L     *)
(* that end the input or are followed by a blank line or a heading, where  *)
(* the closing of the paragraph is not in question.  After a list item the *)
(* code writes </ul>L or </ol>L on one line, and no paragraph.             *)
(***************************************************************************)
IsBlank(k) == strip(Classified(k)) = <<>>

IsHeading(k) == markdown[k] # <<>> /\ markdown[k][1] = "#"

IsPlainText(k) == ~IsBlank(k) /\ ~IsHeading(k) /\ ~IsItem(k)

NoMarkers(k) == IsPlainText(k) /\ Classified(k) = markdown[k]

C6_LoneLineIsParagraph ==
    Finished =>
        \A k \in 1..Len(markdown) :
            ( /\ NoMarkers(k)
              /\ k = 1 \/ ~IsPlainText(k - 1)
              /\ k = Len(markdown) \/ IsBlank(k + 1) \/ IsHeading(k + 1) )
            => \E p \in 1..(Len(FileLines) - 2) :
                  /\ FileLines[p] = P_OPEN
                  /\ FileLines[p + 1] = markdown[k]
                  /\ FileLines[p + 2] = P_CLOSE

(***************************************************************************)
(* C7: a run of k >= 2 consecutive plain-text lines yields one <p>, the k  *)
(* lines separated by k-1 <br /> lines, and one </p>.  The claim is stated *)
(* here for the runs that end the input or are followed by a blank line or *)
(* a heading.  After a list item the first line of the run is written      *)
(* behind the closing list tag, outside the paragraph, and no <br />       *)
(* separates it from the second.                                           *)
(***************************************************************************)
TextRuns ==
    {r \in (1..Len(markdown)) \X (1..Len(markdown)) :
        /\ r[1] < r[2]
        /\ \A j \in r[1]..r[2] : IsPlainText(j)
        /\ r[1] = 1 \/ ~IsPlainText(r[1] - 1)
        /\ r[2] = Len(markdown) \/ IsBlank(r[2] + 1) \/ IsHeading(r[2] + 1)}

ParagraphBlock(F, p, r) ==
    LET k == r[2] - r[1] + 1
    IN  /\ p + 2 * k <= Len(F)
        /\ F[p] = P_OPEN
        /\ \A m \in 0..(k - 1) : F[p + 1 + 2 * m] = Classified(r[1] + m)
        /\ \A m \in 1..(k - 1) : F[p + 2 * m] = BR
        /\ F[p + 2 * k] = P_CLOSE

C7_TextRunIsOneParagraph ==
    Finished =>
        \A r \in TextRuns : \E p \in 1..Len(FileLines) : ParagraphBlock(FileLines, p, r)

(***************************************************************************)
(* C8: when the input ends with a list item, the closing tag of the open   *)
(* list is written once, on its own line, as the very last line of the     *)
(* file, after every line of the assembler; otherwise no such line is      *)
(* written.                                                                *)
(***************************************************************************)
RECURSIVE AssemblerLines(_)
\* the file lines the result of convert_line makes
AssemblerLines(ls) ==
    IF ls = <<>> THEN <<>>
    ELSE SplitLines(Head(ls) \o <<NL>>, <<>>) \o AssemblerLines(Tail(ls))

EndsInList == markdown # <<>> /\ IsItem(Len(markdown))

C8_FlushIsLastLine ==
    Finished =>
        IF EndsInList
        THEN FileLines = Append(AssemblerLines(processed_lines),
                                close_tag(RunType(Len(markdown))))
        ELSE FileLines = AssemblerLines(processed_lines)

\* the input ends inside a list that holds items of both markers
C8_Witness ==
    /\ Finished
    /\ EndsInList
    /\ Len(markdown) >= 3
    /\ MarkerTag(Len(markdown)) # RunType(Len(markdown))

(***************************************************************************)
(* C9: a ((CONTENT)) span is replaced by CONTENT with every 'c' and every  *)
(* 'C' deleted, the other characters kept in order; the delimiters go, the *)
(* text outside the spans is untouched, each span of a line is replaced on *)
(* its own, and "((" without a later "))" stays as literal text.           *)
(***************************************************************************)
SpanOpens(s) ==
    {i \in 1..Len(s) :
        /\ i + 3 <= Len(s)
        /\ s[i] = "(" /\ s[i + 1] = "("
        /\ \E k \in (i + 2)..(Len(s) - 1) : s[k] = ")" /\ s[k + 1] = ")"}

Least(S) == CHOOSE x \in S : \A y \in S : x <= y

WithoutC(s) == SelectSeq(s, LAMBDA x : x \notin {"c", "C"})

RECURSIVE Eliminated(_)
\* what the claim says of a line: its first span replaced, then the rest
Eliminated(s) ==
    IF SpanOpens(s) = {} THEN s
    ELSE LET a == Least(SpanOpens(s))
             b == Least({k \in (a + 2)..(Len(s) - 1) : s[k] = ")" /\ s[k + 1] = ")"})
         IN  SubSeq(s, 1, a - 1) \o WithoutC(SubSeq(s, a + 2, b - 1))
             \o Eliminated(SubSeq(s, b + 2, Len(s)))

C9_CharacterElimination ==
    pc = "returned" =>
        /\ ret = Eliminated(arg)
        /\ SpanOpens(arg) = {} => ret = arg
        /\ arg = <<"(", "(", "C", "o", "o", "l", ")", ")">> => ret = <<"o", "o", "l">>

\* a line with two spans, each holding 'c' and 'C', and both letters outside
C9_Witness ==
    /\ pc = "returned"
    /\ arg = <<"a", "(", "(", "c", "a", "C", ")", ")", "c", "(", "(", "C", "c", ")", ")", "C">>
    /\ ret = <<"a", "a", "c", "C">>

(***************************************************************************)
(* C10: whenever opening the Markdown file fails, for whatever reason, the *)
(* program writes "Missing <markdown-file>" to standard error and exits    *)
(* with code 1; on success it exits 0 and writes nothing.  As stated it    *)
(* fails: only FileNotFoundError is caught.                                *)
(***************************************************************************)
OpenFailed == md_open \notin {None, "ok"}

Succeeded == md_open = "ok" /\ html_open = "ok"

C11_CloseResetsList ==
    pc = "loop" =>
        /\ (idx >= 2 /\ ~IsItem(idx) /\ IsItem(idx - 1))
              => /\ processed_lines[idx]
                      = close_tag(RunType(idx - 1)) \o Classified(idx)
                 /\ ~in_list
                 /\ list_type = None
        /\ (idx >= 3 /\ IsItem(idx) /\ ~IsItem(idx - 1) /\ IsItem(idx - 2))
              => /\ processed_lines[idx]
                      = open_tag(MarkerTag(idx)) \o <<NL>> \o li(Classified(idx))
                 /\ in_list
                 /\ list_type = MarkerTag(idx)

\* a list, a whitespace-only line that closes it, then an item of the other marker
C11_Witness ==
    /\ pc = "loop"
    /\ idx = 3
    /\ IsItem(1) /\ markdown[2] = <<" ">> /\ IsItem(3)
    /\ MarkerTag(3) # MarkerTag(1)

(***************************************************************************)
(* C12: a classified line starting with <ul, <ol or <li that arrives while *)
(* a paragraph is open clears the in-paragraph flag and is emitted         *)
(* unchanged, without </p>; a blank line, a heading or the end of the      *)
(* input that follows emits no </p> for that paragraph, and a plain-text   *)
(* line that follows opens a new <p>.                                      *)
(***************************************************************************)
\* the state of the loop of convert_line after the first k lines of arg
AfterLines(k) ==
    convert_loop([in_paragraph |-> FALSE, html_lines |-> <<>>], SubSeq(arg, 1, k), 1)

IsClosingLine(l) == startswith_any(l, ClosingMarkers)
IsOpeningLine(l) == startswith_any(l, OpeningMarkers)
IsBlankLine(l) == ~IsClosingLine(l) /\ ~IsOpeningLine(l) /\ strip(l) = <<>>
IsTextLine(l) == ~IsClosingLine(l) /\ ~IsOpeningLine(l) /\ strip(l) # <<>>

\* line k of arg is a list opening line that follows a plain-text line
OpensListInParagraph(k) ==
    k >= 2 /\ IsTextLine(arg[k - 1]) /\ IsOpeningLine(arg[k])

C12_ListOpeningDropsParagraph ==
    pc = "returned" =>
        \A k \in 1..Len(arg) :
            OpensListInParagraph(k) =>
                LET before == AfterLines(k - 1)
                    after == AfterLines(k)
                IN  /\ before.in_paragraph
                    /\ ~after.in_paragraph
                    /\ after.html_lines = Append(before.html_lines, arg[k])
                    /\ IF k = Len(arg)
                       THEN ret = after.html_lines
                       ELSE LET n == arg[k + 1]
                                out == AfterLines(k + 1).html_lines
                            IN  /\ IsBlankLine(n) => out = after.html_lines
                                /\ IsClosingLine(n) => out = Append(after.html_lines, n)
                                /\ IsTextLine(n) => out = after.html_lines \o <<P_OPEN, n>>

\* text, a list opening line, text again
C12_Witness ==
    /\ pc = "returned"
    /\ Len(arg) = 3
    /\ OpensListInParagraph(2)
    /\ IsTextLine(arg[3])

(***************************************************************************)
(* C16: in every output of convert_line each <p> line and each <br /> line *)
(* is immediately followed by a plain-text line, and each <br /> line and  *)
(* each </p> line is immediately preceded by a plain-text line.            *)
(***************************************************************************)
IsPlainOutput(l) == l \notin {P_OPEN, P_CLOSE, BR} /\ IsTextLine(l)

C16_NoDanglingPunctuation ==
    pc = "returned" =>
        \A i \in 1..Len(ret) :
            /\ ret[i] \in {P_OPEN, BR} => (i < Len(ret) /\ IsPlainOutput(ret[i + 1]))
            /\ ret[i] \in {BR, P_CLOSE} => (i > 1 /\ IsPlainOutput(ret[i - 1]))

\* a paragraph of two lines after a list opening line
C16_Witness ==
    /\ pc = "returned"
    /\ Len(ret) = 6
    /\ IsOpeningLine(ret[1])
    /\ ret[2] = P_OPEN /\ ret[4] = BR /\ ret[6] = P_CLOSE

(***************************************************************************)
(* C17: in every prefix of the output of convert_line the number of </p>   *)
(* lines never exceeds the number of <p> lines.                            *)
(***************************************************************************)
CountIn(out, n, l) == Cardinality({i \in 1..n : out[i] = l})

C17_NeverMoreClosingsThanOpenings ==
    pc = "returned" =>
        \A n \in 0..Len(ret) : CountIn(ret, n, P_CLOSE) <= CountIn(ret, n, P_OPEN)

\* two paragraphs, each closed
C17_Witness ==
    /\ pc = "returned"
    /\ CountIn(ret, Len(ret), P_CLOSE) = 2
    /\ CountIn(ret, Len(ret), P_OPEN) = 2

(***************************************************************************)
(* C18: "Missing <markdown-file>" with exit code 1 is produced only when   *)
(* the Markdown file itself is missing; a failure to open the output file  *)
(* is not reported as a missing Markdown file.  The output file is opened  *)
(* inside the same try block, so its FileNotFoundError is reported so.     *)
(***************************************************************************)
C18_MissingOnlyForMarkdown ==
    (pc = "exit" /\ MISSING \in {stderr[i] : i \in 1..Len(stderr)})
        => md_open = "FileNotFoundError"

(***************************************************************************)
(* C19: with (in_list, list_type) threaded through list from (False,       *)
(* None), in_list is true exactly when list_type is "ul" or "ol" and false *)
(* exactly when it is None; a line that is no item, arriving while no list *)
(* is open, changes neither component and passes through unchanged.        *)
(***************************************************************************)
PassesThrough(k) == ~IsItem(k) /\ (k = 1 \/ ~IsItem(k - 1))

C19_ListStateConsistent ==
    /\ in_list \in BOOLEAN
    /\ in_list <=> list_type \in {UL, OL}
    /\ ~in_list <=> list_type = None
    /\ (pc = "loop" /\ idx >= 1 /\ PassesThrough(idx))
          => /\ ~in_list
             /\ list_type = None
             /\ processed_lines[idx] = Classified(idx)

\* a list was opened and closed, and a further line passed through
C19_Witness ==
    /\ pc = "loop"
    /\ idx = 3
    /\ IsItem(1) /\ ~IsItem(2) /\ PassesThrough(3)

(***************************************************************************)
(* The output element of each input line                                   *)
(***************************************************************************)
\* what the list tracker makes of line k, told from the lines before it
TrackerOut(k) ==
    IF IsItem(k)
    THEN IF k = 1 \/ ~IsItem(k - 1)
         THEN open_tag(MarkerTag(k)) \o <<NL>> \o li(Classified(k))
         ELSE li(Classified(k))
    ELSE IF k > 1 /\ IsItem(k - 1)
         THEN close_tag(RunType(k - 1)) \o Classified(k)
         ELSE Classified(k)

\* line k reaches convert_line as something else than a blank line
Kept(k) == strip(TrackerOut(k)) # <<>>

KeptUpTo(k) == Cardinality({j \in 1..k : Kept(j)})

\* the positions, in the result of convert_line, of the lines that are not
\* <p>, </p> or <br />
ContentPositions ==
    SelectSeq([p \in 1..Len(processed_lines) |-> p],
              LAMBDA p : processed_lines[p] \notin {P_OPEN, P_CLOSE, BR})

\* the position of the element of line k, 0 when there is none
Pos(k) ==
    IF Kept(k) /\ KeptUpTo(k) <= Len(ContentPositions)
    THEN ContentPositions[KeptUpTo(k)] ELSE 0

\* the position of the last element before that of line k, 0 when there is none
PrevPos(k) ==
    IF KeptUpTo(k - 1) = 0 \/ KeptUpTo(k - 1) > Len(ContentPositions)
    THEN 0 ELSE ContentPositions[KeptUpTo(k - 1)]

EndsWith(s, t) ==
    Len(t) <= Len(s) /\ SubSeq(s, Len(s) - Len(t) + 1, Len(s)) = t

(***************************************************************************)
(* C15: heading classification comes before list and paragraph             *)
(* classification on every line.  A line starting with '#' is never        *)
(* emitted as a list item or as paragraph text; after an open paragraph    *)
(* the </p> line is emitted before the heading; after an open list the     *)
(* closing list tag precedes the heading element on the same output line.  *)
(* A line starting with a list marker is a list item even when its content *)
(* contains '#'.                                                           *)
(***************************************************************************)
ParagraphOpenBefore(k) ==
    k > 1 /\ IsPlainText(k - 1) /\ (k = 2 \/ ~IsItem(k - 2))

HasHash(k) == \E i \in 1..Len(markdown[k]) : markdown[k][i] = "#"

C15_HeadingFirst ==
    Finished =>
        \A k \in 1..Len(markdown) :
            /\ IsHeading(k) =>
                  LET p == Pos(k)
                      h == Classified(k)
                  IN  /\ p >= 1
                      /\ startswith(h, <<"<", "h">>)
                      /\ processed_lines[p] =
                            IF k > 1 /\ IsItem(k - 1)
                            THEN close_tag(RunType(k - 1)) \o h ELSE h
                      /\ p > 1 => processed_lines[p - 1] \notin {P_OPEN, BR}
                      /\ ParagraphOpenBefore(k)
                            => (p > 1 /\ processed_lines[p - 1] = P_CLOSE)
            /\ (IsItem(k) /\ HasHash(k)) =>
                  /\ Pos(k) >= 1
                  /\ EndsWith(processed_lines[Pos(k)], li(Classified(k)))
                  /\ EndsWith(li(Classified(k)),
                              slice_from(markdown[k], 2) \o <<"<", "/", "l", "i", ">">>)

\* a heading after an open paragraph, after an item whose content holds '#'
C15_Witness ==
    /\ Finished
    /\ Len(markdown) = 3
    /\ IsItem(1) /\ HasHash(1)
    /\ IsPlainText(2)
    /\ IsHeading(3)

(***************************************************************************)
(* C13: no input line is dropped: each input line that is not empty or     *)
(* whitespace-only yields exactly one output element carrying its          *)
(* rewritten content, the elements come in input order, and an empty or    *)
(* whitespace-only classified line yields no content line, only a </p>     *)
(* when a paragraph was open.  As stated it fails for a line that the      *)
(* inline rewriting leaves empty, such as "((c))": it yields no element.   *)
(***************************************************************************)
RECURSIVE KeptOuts(_)
\* the elements the lines 1..k are due, in input order
KeptOuts(k) ==
    IF k = 0 THEN <<>>
    ELSE IF Kept(k) THEN Append(KeptOuts(k - 1), TrackerOut(k))
    ELSE KeptOuts(k - 1)

\* the element of each line is what the tracker made of it, and it carries
\* the rewritten content of the line
ElementsCarryContent ==
    (pc = "loop" /\ idx >= 1) =>
        /\ processed_lines[idx] = TrackerOut(idx)
        /\ EndsWith(processed_lines[idx],
                    IF IsItem(idx) THEN li(Classified(idx)) ELSE Classified(idx))

\* the content lines of the output are the elements due, in input order
ElementsInOrder ==
    Finished =>
        [n \in 1..Len(ContentPositions) |-> processed_lines[ContentPositions[n]]]
            = KeptOuts(Len(markdown))

\* the first blank classified line after an element gives </p> when that
\* element left a paragraph open and nothing otherwise; further blank lines
\* give nothing, so no two </p> lines are adjacent
BlankGivesOnlyClosing ==
    Finished =>
        /\ \A k \in 1..Len(markdown) :
               (~Kept(k) /\ (k = 1 \/ Kept(k - 1))) =>
                   LET q == PrevPos(k) + 1
                   IN  IF k > 1 /\ IsTextLine(TrackerOut(k - 1))
                       THEN q <= Len(processed_lines) /\ processed_lines[q] = P_CLOSE
                       ELSE q <= Len(processed_lines) => processed_lines[q] # P_CLOSE
        /\ \A p \in 1..(Len(processed_lines) - 1) :
               ~(processed_lines[p] = P_CLOSE /\ processed_lines[p + 1] = P_CLOSE)

RawBlank(k) == strip(markdown[k]) = <<>>

C13_NoLineDropped ==
    /\ ElementsCarryContent
    /\ ElementsInOrder
    /\ BlankGivesOnlyClosing
    /\ Finished => \A k \in 1..Len(markdown) : ~RawBlank(k) => Kept(k)

(***************************************************************************)
(* C13 as amended: each input line whose form after the inline rewriting   *)
(* is not empty or whitespace-only yields exactly one output element       *)
(* carrying its rewritten content, the elements come in input order, and   *)
(* an empty or whitespace-only classified line yields no content line,     *)
(* only a </p> when a paragraph was open.                                  *)
(***************************************************************************)
RewrittenBlank(k) ==
    strip(process_inline_formatting(remove_character(markdown[k]))) = <<>>

C13_NoRewrittenLineDropped ==
    /\ ElementsCarryContent
    /\ ElementsInOrder
    /\ BlankGivesOnlyClosing
    /\ Finished => \A k \in 1..Len(markdown) : ~RewrittenBlank(k) => Kept(k)

\* text, a line the rewriting leaves empty, text: two paragraphs
C13_Witness ==
    /\ Finished
    /\ Len(markdown) = 3
    /\ IsPlainText(1) /\ IsPlainText(3)
    /\ ~RawBlank(2) /\ RewrittenBlank(2)
    /\ Len(ContentPositions) = 2

(***************************************************************************)
(* C14: the four inline rewrites are applied in the order hash directive,  *)
(* character elimination, bold, emphasis, and text produced by an earlier  *)
(* rewrite is never matched or altered by a later rewrite of the same      *)
(* line: the digest that replaces [[CONTENT]] reaches the output intact,   *)
(* and text released by ((CONTENT)) is not turned into a <b> or <em> span. *)
(***************************************************************************)
Occurs(t, s) ==
    \E i \in 0..(Len(s) - Len(t)) : SubSeq(s, i + 1, i + Len(t)) = t

Group(s, span) == SubSeq(s, span.a + 2, span.b - 1)

\* the line after the hash directive has been rewritten
Hashed(s) == re_sub(<<"[", "[">>, <<"]", "]">>, "md5", s)

\* every digest written by the hash directive is in the rewritten line
DigestsIntact ==
    \A n \in 1..Len(Spans(arg, <<"[", "[">>, <<"]", "]">>, 1)) :
        Occurs(md5_hash(Group(arg, Spans(arg, <<"[", "[">>, <<"]", "]">>, 1)[n])), ret)

\* every text released by the character elimination is in the rewritten line
ReleasedTextIntact ==
    \A n \in 1..Len(Spans(Hashed(arg), <<"(", "(">>, <<")", ")">>, 1)) :
        Occurs(strip_c(Group(Hashed(arg),
                             Spans(Hashed(arg), <<"(", "(">>, <<")", ")">>, 1)[n])),
               ret)

C14_EarlierRewritesUntouched ==
    pc = "returned" => DigestsIntact /\ ReleasedTextIntact


====
